---- MODULE Spec2Model ----
(***************************************************************************)
(* A model of the strict compiler front end of compiler.py: SymbolTable,   *)
(* the recursive-descent Parser and the IntermediateCodeGenerator; and of  *)
(* the tolerant parser of SimpleParser.py.                                 *)
(*                                                                         *)
(* Python values are modelled as records so that any two of them can be    *)
(* compared: a token (kind, value) is [kind, value], a Node object is      *)
(* [cls, value, children] where cls is type(node).__name__, None is the    *)
(* record None, and a raised exception is [type, position, msg].           *)
(* Positions are 0-based as in the source; tokens[position + 1] is the     *)
(* token at the cursor.                                                    *)
(***************************************************************************)
EXTENDS Integers, Sequences, FiniteSets, TLC

VARIABLES
    pc,             \* where the driver is: "table" | "parse" | "parsed" | "error" | "generated" | "unsupported"
                    \* (SimpleParser.parse: "simple" | "returned" | "error")
    tokens,         \* Parser.tokens
    position,       \* Parser.position
    symbols,        \* SymbolTable.symbols
    root,           \* children of the Program node built by Parser.parse
    exc,            \* the exception that ended the run (NoExc while none)
    last,           \* the last SymbolTable call made through the API and its outcome
    iters,          \* statement-loop iterations started so far (parse and parse_block)
    entry,          \* the cursor on entry to the last top-level parse_statement
    stalled,        \* some parse_statement returned normally without advancing
                    \* (SimpleParser.parse: and the loop that called it went round again)
    undeclared_use, \* some identifier operand was parsed while absent from symbols
    instructions,   \* IntermediateCodeGenerator.instructions
    temp_counter,   \* IntermediateCodeGenerator.temp_counter
    runs,           \* completed top-level generate(ast) calls
    first_listing,  \* instructions as they stood when the first generate returned
    object_runs,    \* generate(ast) calls made on the current generator object
    source,         \* the expression tree the program was written from (None: from fragments)
    blocks          \* SimpleParser.parse: the if-statements whose block loop is running, innermost last

vars == <<pc, tokens, position, symbols, root, exc, last, iters, entry, stalled,
          undeclared_use, instructions, temp_counter, runs, first_listing,
          object_runs, source, blocks>>

----------------------------------------------------------------------------
(* Python values *)

None == [cls |-> "NoneType"]

Tok(kind, value) == [kind |-> kind, value |-> value]

NoExc == [type |-> "None", position |-> -1, msg |-> ""]

Exc(type, msg) == [type |-> type, position |-> -1, msg |-> msg]

Raised(x) == x.exc.type # "None"

(* Node classes *)

Node(value, children) == [cls |-> "Node", value |-> value, children |-> children]

DeclarationNode(identifier, expression) ==
    [cls |-> "DeclarationNode", value |-> "Declaration", children |-> <<identifier, expression>>]

AssignmentNode(identifier, expression) ==
    [cls |-> "AssignmentNode", value |-> "Assignment", children |-> <<identifier, expression>>]

BinaryOperationNode(operator, left, right) ==
    [cls |-> "BinaryOperationNode", value |-> operator, children |-> <<left, right>>]

ValueNode(value) == [cls |-> "ValueNode", value |-> value, children |-> <<>>]

FunctionNode(name, parameters, body) ==
    [cls |-> "FunctionNode", value |-> "Function",
     children |-> <<name>> \o parameters \o <<body>>,
     name |-> name, parameters |-> parameters, body |-> body]

----------------------------------------------------------------------------
(* SymbolTable *)

\* Lexemes the tokenizer's IDENTIFIER pattern [_Ⴀ-ჿ][_Ⴀ-ჿ0-9]*
\* accepts and str.isidentifier() rejects (U+10FB, the Georgian paragraph separator).
NonIdentifierLexemes == {"჻"}

isidentifier(name) == name \notin NonIdentifierLexemes

\* declare without the check for a name already present.
declare_overwrites(table, name, value) ==
    IF ~isidentifier(name)
    THEN [symbols |-> table, exc |-> Exc("ValueError", "Invalid symbol name")]
    ELSE [symbols |-> [n \in DOMAIN table \cup {name} |->
                          IF n = name THEN value ELSE table[n]],
          exc |-> NoExc]

declare(table, name, value) ==
    IF ~isidentifier(name)
    THEN [symbols |-> table, exc |-> Exc("ValueError", "Invalid symbol name")]
    ELSE IF name \in DOMAIN table
    THEN [symbols |-> table, exc |-> Exc("ValueError", "has already been declared")]
    ELSE [symbols |-> [n \in DOMAIN table \cup {name} |->
                          IF n = name THEN value ELSE table[n]],
          exc |-> NoExc]

\* assign without the check for an absent name: a plain dictionary store.
assign_creates(table, name, value) ==
    [symbols |-> [n \in DOMAIN table \cup {name} |->
                     IF n = name THEN value ELSE table[n]],
     exc |-> NoExc]

assign(table, name, value) ==
    IF name \notin DOMAIN table
    THEN [symbols |-> table, exc |-> Exc("KeyError", "has not been declared yet")]
    ELSE [symbols |-> [table EXCEPT ![name] = value], exc |-> NoExc]

\* self.symbols.get(name, None): a name bound to None reads as not found.
lookup(table, name) ==
    LET value == IF name \in DOMAIN table THEN table[name] ELSE None
    IN  IF value = None
        THEN [value |-> None, exc |-> Exc("KeyError", "not found")]
        ELSE [value |-> value, exc |-> NoExc]

EmptyTable == [n \in {} |-> None]

----------------------------------------------------------------------------
(* Sequencing.  Then(v, F) is "evaluate v, then continue with F on its      *)
(* value": the statements of a method body run one after the other, each    *)
(* on the state its predecessor left.                                       *)

Only(S) == CHOOSE x \in S : TRUE

Then(v, F(_)) == Only({F(x) : x \in {v}})

----------------------------------------------------------------------------
(* Parser.  The parser object's fields and the ghost counters are threaded  *)
(* through the methods as one record p; p.token is what consume returned,   *)
(* p.ret what a parse_* method returned, p.exc the exception being raised.  *)
(* A method applied to a record whose exc is set returns it unchanged: the  *)
(* exception propagates to the caller of parse.                             *)

current_token(p) ==
    IF p.position < Len(tokens) THEN tokens[p.position + 1] ELSE None

error(p, message) ==
    [p EXCEPT !.exc = [type |-> "SyntaxError", position |-> p.position, msg |-> message]]

\* expected_type / expected_value "" stand for the falsy default None.
consume(p, expected_type, expected_value) ==
    IF Raised(p) THEN p
    ELSE Then(current_token(p), LAMBDA token :
         IF \/ token = None
            \/ (expected_type # "" /\ token.kind # expected_type)
            \/ (expected_value # "" /\ token.value # expected_value)
         THEN error(p, "Expected token")
         ELSE [p EXCEPT !.position = @ + 1, !.token = token])

symbol_table_declare(p, name, value) ==
    IF Raised(p) THEN p
    ELSE Then(declare(p.symbols, name, value), LAMBDA r :
         [p EXCEPT !.symbols = r.symbols, !.exc = r.exc])

symbol_table_assign(p, name, value) ==
    IF Raised(p) THEN p
    ELSE Then(assign(p.symbols, name, value), LAMBDA r :
         [p EXCEPT !.symbols = r.symbols, !.exc = r.exc])

RECURSIVE parse_factor(_), parse_term(_), term_loop(_), parse_expression(_),
          expression_loop(_), parse_statement(_), parse_function(_),
          parse_block(_), block_loop(_, _), parameters_loop(_)

\* token[0] on a None token (the input has ended) raises TypeError.
parse_factor(p) ==
    IF Raised(p) THEN p
    ELSE Then(current_token(p), LAMBDA token :
         IF token = None
         THEN [p EXCEPT !.exc = Exc("TypeError", "'NoneType' object is not subscriptable")]
         ELSE IF token.kind \in {"NUMBER", "IDENTIFIER"}
         THEN Then(consume(p, "", ""), LAMBDA q :
              [q EXCEPT !.ret = ValueNode(token.value),
                        !.undeclared_use = @ \/ (token.kind = "IDENTIFIER"
                                                 /\ token.value \notin DOMAIN p.symbols)])
         ELSE IF token.kind = "BRACKET" /\ token.value = "("
         THEN Then(consume(p, "BRACKET", "("), LAMBDA q1 :
              Then(parse_expression(q1), LAMBDA q2 :
              Then(consume(q2, "BRACKET", ")"), LAMBDA q3 :
              [q3 EXCEPT !.ret = q2.ret])))
         ELSE error(p, "Expected factor"))

\* The while loop of parse_term; p.ret is node.
term_loop(p) ==
    IF Raised(p) THEN p
    ELSE Then(current_token(p), LAMBDA token :
         IF token # None /\ token.kind = "OPERATOR" /\ token.value \in {"*", "/"}
         THEN Then(consume(p, "OPERATOR", ""), LAMBDA q1 :
              Then(parse_factor(q1), LAMBDA q2 :
              Then([q2 EXCEPT !.ret = BinaryOperationNode(q1.token.value, p.ret, q2.ret)],
                   LAMBDA q3 : term_loop(q3))))
         ELSE p)

parse_term(p) == Then(parse_factor(p), LAMBDA q : term_loop(q))

\* expression_loop taking a factor, not a term, as the right operand of + and -.
expression_loop_factor(p) ==
    IF Raised(p) THEN p
    ELSE Then(current_token(p), LAMBDA token :
         IF token # None /\ token.kind = "OPERATOR" /\ token.value \in {"+", "-"}
         THEN Then(consume(p, "OPERATOR", ""), LAMBDA q1 :
              Then(parse_factor(q1), LAMBDA q2 :
              Then([q2 EXCEPT !.ret = BinaryOperationNode(q1.token.value, p.ret, q2.ret)],
                   LAMBDA q3 : expression_loop(q3))))
         ELSE p)

\* The while loop of parse_expression; p.ret is node.
expression_loop(p) ==
    IF Raised(p) THEN p
    ELSE Then(current_token(p), LAMBDA token :
         IF token # None /\ token.kind = "OPERATOR" /\ token.value \in {"+", "-"}
         THEN Then(consume(p, "OPERATOR", ""), LAMBDA q1 :
              Then(parse_term(q1), LAMBDA q2 :
              Then([q2 EXCEPT !.ret = BinaryOperationNode(q1.token.value, p.ret, q2.ret)],
                   LAMBDA q3 : expression_loop(q3))))
         ELSE p)

parse_expression(p) == Then(parse_term(p), LAMBDA q : expression_loop(q))

parse_declaration(p) ==
    Then(consume(p, "KEYWORD", "აი"), LAMBDA q1 :
    Then(consume(q1, "IDENTIFIER", ""), LAMBDA q2 :
    Then(consume(q2, "ASSIGNMENT", "="), LAMBDA q3 :
    Then(parse_expression(q3), LAMBDA q4 :
    Then(consume(q4, "SEMICOLON", ";"), LAMBDA q5 :
    Then(symbol_table_declare(q5, q2.token.value, q4.ret), LAMBDA q6 :
    IF Raised(q6) THEN q6
    ELSE [q6 EXCEPT !.ret = DeclarationNode(q2.token, q4.ret)]))))))

parse_assignment(p) ==
    Then(consume(p, "IDENTIFIER", ""), LAMBDA q1 :
    Then(consume(q1, "ASSIGNMENT", "="), LAMBDA q2 :
    Then(parse_expression(q2), LAMBDA q3 :
    Then(consume(q3, "SEMICOLON", ";"), LAMBDA q4 :
    Then(symbol_table_assign(q4, q1.token.value, q3.ret), LAMBDA q5 :
    IF Raised(q5) THEN q5
    ELSE [q5 EXCEPT !.ret = AssignmentNode(q1.token, q3.ret)])))))

\* The while loop of parse_parameters; p.ret is parameters.
parameters_loop(p) ==
    IF Raised(p) THEN p
    ELSE Then(current_token(p), LAMBDA token :
         IF token # None /\ token.kind = "COMMA"
         THEN Then(consume(p, "COMMA", ""), LAMBDA q1 :
              Then(consume(q1, "IDENTIFIER", ""), LAMBDA q2 :
              IF Raised(q2) THEN q2
              ELSE Then([q2 EXCEPT !.ret = Append(p.ret, q2.token)],
                        LAMBDA q3 : parameters_loop(q3))))
         ELSE p)

parse_parameters(p) ==
    IF Raised(p) THEN p
    ELSE Then(current_token(p), LAMBDA token :
         IF token # None /\ token.kind = "IDENTIFIER"
         THEN Then(consume(p, "IDENTIFIER", ""), LAMBDA q1 :
              Then([q1 EXCEPT !.ret = <<q1.token>>], LAMBDA q2 : parameters_loop(q2)))
         ELSE [p EXCEPT !.ret = <<>>])

parse_function(p) ==
    Then(consume(p, "KEYWORD", "ფუნქცია"), LAMBDA q1 :
    Then(consume(q1, "IDENTIFIER", ""), LAMBDA q2 :
    Then(consume(q2, "BRACKET", "("), LAMBDA q3 :
    Then(parse_parameters(q3), LAMBDA q4 :
    Then(consume(q4, "BRACKET", ")"), LAMBDA q5 :
    Then(consume(q5, "BRACKET", "{"), LAMBDA q6 :
    Then(parse_block(q6), LAMBDA q7 :
    Then(consume(q7, "BRACKET", "}"), LAMBDA q8 :
    IF Raised(q8) THEN q8
    ELSE Then(FunctionNode(q2.token, q4.ret, q7.ret), LAMBDA fn :
         Then(symbol_table_declare(q8, q2.token.value, fn), LAMBDA q9 :
         IF Raised(q9) THEN q9 ELSE [q9 EXCEPT !.ret = fn]))))))))))

\* parse_statement whose fallback returns the Unknown node without consuming.
parse_statement_keeps_cursor(p) ==
    IF Raised(p) THEN p
    ELSE Then(current_token(p), LAMBDA token :
         IF token = None THEN [p EXCEPT !.ret = None]
         ELSE IF token.kind = "KEYWORD" /\ token.value = "აი"
         THEN parse_declaration(p)
         ELSE IF token.kind = "IDENTIFIER"
         THEN parse_assignment(p)
         ELSE IF token.kind = "KEYWORD" /\ token.value = "ფუნქცია"
         THEN parse_function(p)
         ELSE [p EXCEPT !.ret = Node("Unknown", <<>>)])

parse_statement(p) ==
    IF Raised(p) THEN p
    ELSE Then(current_token(p), LAMBDA token :
         IF token = None THEN [p EXCEPT !.ret = None]
         ELSE IF token.kind = "KEYWORD" /\ token.value = "აი"
         THEN parse_declaration(p)
         ELSE IF token.kind = "IDENTIFIER"
         THEN parse_assignment(p)
         ELSE IF token.kind = "KEYWORD" /\ token.value = "ფუნქცია"
         THEN parse_function(p)
         ELSE Then(consume(p, "", ""), LAMBDA q :
              [q EXCEPT !.ret = Node("Unknown", <<>>)]))

\* One pass of a statement loop: count it, call parse_statement, and note a
\* call that returned normally with the cursor where it was.
loop_statement(p) ==
    Then([p EXCEPT !.iters = @ + 1], LAMBDA p1 :
    Then(parse_statement(p1), LAMBDA q :
    [q EXCEPT !.stalled = @ \/ (~Raised(q) /\ q.position <= p.position)]))

\* The while loop of parse_block.
block_loop(p, children) ==
    IF Raised(p) THEN p
    ELSE Then(current_token(p), LAMBDA token :
         IF token # None /\ token.value # "}"
         THEN Then(loop_statement(p), LAMBDA q :
              Then(IF q.ret # None THEN Append(children, q.ret) ELSE children,
                   LAMBDA grown : block_loop(q, grown)))
         ELSE [p EXCEPT !.ret = Node("Block", children)])

parse_block(p) == block_loop(p, <<>>)

----------------------------------------------------------------------------
(* IntermediateCodeGenerator.  The generator object's fields are threaded   *)
(* through the methods as one record g; g.ret is the text of the value a    *)
(* gen_* method returned and g.exc the exception being raised.              *)
(* An instruction string is modelled as the sequence of its words:          *)
(* f"{temp} = {left} {op} {right}" is <<temp, "=", left, op, right>>.       *)

\* type(node).__name__: tokens are tuples and have no class of their own.
TypeName(node) == IF "cls" \in DOMAIN node THEN node.cls ELSE "tuple"

\* The gen_<type name> attributes the class defines.
GenMethods == {"DeclarationNode", "AssignmentNode", "BinaryOperationNode",
               "ValueNode", "FunctionNode", "Node"}

new_temp(g) ==
    [g EXCEPT !.ret = "t" \o ToString(g.temp_counter), !.temp_counter = @ + 1]

generic_gen(g, node) ==
    [g EXCEPT !.exc = Exc("NotImplementedError", "No generator for node type")]

\* self.instructions.append(instruction)
emit(g, instruction) == [g EXCEPT !.instructions = Append(@, instruction)]

RECURSIVE generate(_, _), gen_children(_, _, _)

\* gen_DeclarationNode without the instruction identifier = expression.
gen_DeclarationNode_no_copy(g, node) ==
    Then(node.children[1].value, LAMBDA identifier :
    Then(generate(g, node.children[2]), LAMBDA e :
    IF Raised(e) THEN e ELSE [e EXCEPT !.ret = identifier]))

gen_DeclarationNode(g, node) ==
    Then(node.children[1].value, LAMBDA identifier :
    Then(generate(g, node.children[2]), LAMBDA e :
    IF Raised(e) THEN e
    ELSE [emit(e, <<identifier, "=", e.ret>>) EXCEPT !.ret = identifier]))

gen_AssignmentNode(g, node) ==
    Then(node.children[1].value, LAMBDA identifier :
    Then(generate(g, node.children[2]), LAMBDA e :
    IF Raised(e) THEN e
    ELSE [emit(e, <<identifier, "=", e.ret>>) EXCEPT !.ret = identifier]))

\* gen_BinaryOperationNode generating the right operand before the left.
gen_BinaryOperationNode_right_first(g, node) ==
    Then(generate(g, node.children[2]), LAMBDA r :
    Then(generate(r, node.children[1]), LAMBDA l :
    IF Raised(l) THEN l
    ELSE Then(new_temp(l), LAMBDA t :
         [emit(t, <<t.ret, "=", l.ret, node.value, r.ret>>) EXCEPT !.ret = t.ret])))

gen_BinaryOperationNode(g, node) ==
    Then(generate(g, node.children[1]), LAMBDA l :
    Then(generate(l, node.children[2]), LAMBDA r :
    IF Raised(r) THEN r
    ELSE Then(new_temp(r), LAMBDA t :
         [emit(t, <<t.ret, "=", l.ret, node.value, r.ret>>) EXCEPT !.ret = t.ret])))

gen_ValueNode(g, node) == [g EXCEPT !.ret = node.value]

\* f"func {name}({', '.join(parameters)}) {{", the body, then "}".
gen_FunctionNode(g, node) ==
    Then(node.name.value, LAMBDA function_name :
    Then([i \in 1..Len(node.parameters) |-> node.parameters[i].value], LAMBDA parameters :
    Then(emit(g, <<"func", function_name, "(">> \o parameters \o <<")", "{">>), LAMBDA h :
    Then(generate(h, node.body), LAMBDA b :
    IF Raised(b) THEN b
    ELSE [emit(b, <<"}">>) EXCEPT !.ret = function_name]))))

\* for child in node.children: self.generate(child); the method returns None.
gen_children(g, children, i) ==
    IF Raised(g) THEN g
    ELSE IF i > Len(children) THEN [g EXCEPT !.ret = "None"]
    ELSE Then(generate(g, children[i]), LAMBDA h : gen_children(h, children, i + 1))

gen_Node(g, node) == gen_children(g, node.children, 1)

generate(g, node) ==
    IF Raised(g) THEN g
    ELSE Then(TypeName(node), LAMBDA method_name :
         IF method_name \notin GenMethods THEN generic_gen(g, node)
         ELSE CASE method_name = "DeclarationNode" -> gen_DeclarationNode(g, node)
                [] method_name = "AssignmentNode" -> gen_AssignmentNode(g, node)
                [] method_name = "BinaryOperationNode" -> gen_BinaryOperationNode(g, node)
                [] method_name = "ValueNode" -> gen_ValueNode(g, node)
                [] method_name = "FunctionNode" -> gen_FunctionNode(g, node)
                [] method_name = "Node" -> gen_Node(g, node))

----------------------------------------------------------------------------
(* Inputs *)

MaxOps == 3       \* operators in a generated expression
MaxFrags == 3     \* fragments concatenated into a program
MaxRuns == 2      \* top-level generate calls per compilation

KW_VAR == Tok("KEYWORD", "აი")
KW_FUNC == Tok("KEYWORD", "ფუნქცია")
KW_IF == Tok("KEYWORD", "თუ")
ASSIGN == Tok("ASSIGNMENT", "=")
SEMI == Tok("SEMICOLON", ";")
COMMA == Tok("COMMA", ",")
LPAREN == Tok("BRACKET", "(")
RPAREN == Tok("BRACKET", ")")
LBRACE == Tok("BRACKET", "{")
RBRACE == Tok("BRACKET", "}")
Id(name) == Tok("IDENTIFIER", name)
Num(digits) == Tok("NUMBER", digits)
Op(o) == Tok("OPERATOR", o)

Numbers == {"1", "2", "3", "4"}
Operators == {"+", "-", "*", "/"}

\* The operand lexemes of generated expressions, in the order they are used.
LeafNames == <<"2", "ა", "3", "ბ", "4", "გ">>

LeafName(i) == LeafNames[((i - 1) % Len(LeafNames)) + 1]

\* Expression trees with exactly n operators whose n + 1 leaves are, from left
\* to right, LeafName(first), LeafName(first + 1), ...
RECURSIVE Trees(_, _)
Trees(n, first) ==
    IF n = 0 THEN {ValueNode(LeafName(first))}
    ELSE UNION {UNION {{BinaryOperationNode(o, l, r) : o \in Operators,
                                                     l \in Trees(k, first)}
                        : r \in Trees(n - 1 - k, first + k + 1)}
                : k \in 0..(n - 1)}

IsLeaf(e) == e.cls = "ValueNode"

Prec(o) == IF o \in {"*", "/"} THEN 2 ELSE 1

LeafToken(e) == IF e.value \in Numbers THEN Num(e.value) ELSE Id(e.value)

\* The token string of an expression tree: with parentheses only where the
\* grammar needs them (full = FALSE) or around every operand that is itself
\* an operation (full = TRUE).
RECURSIVE Render(_, _)
Render(e, full) ==
    IF IsLeaf(e) THEN <<LeafToken(e)>>
    ELSE LET l == e.children[1]
             r == e.children[2]
             paren(c, right) ==
                 /\ ~IsLeaf(c)
                 /\ \/ full
                    \/ Prec(c.value) < Prec(e.value)
                    \/ (right /\ Prec(c.value) = Prec(e.value))
             side(c, right) ==
                 IF paren(c, right) THEN <<LPAREN>> \o Render(c, full) \o <<RPAREN>>
                 ELSE Render(c, full)
         IN  side(l, FALSE) \o <<Op(e.value)>> \o side(r, TRUE)

ExprTrees == UNION {Trees(n, 1) : n \in 0..MaxOps}

DeclarationOf(name, e, full) == <<KW_VAR, Id(name), ASSIGN>> \o Render(e, full) \o <<SEMI>>

Fragments ==
    { <<KW_VAR, Id("ა"), ASSIGN, Num("1"), SEMI>>,
      <<KW_VAR, Id("ბ"), ASSIGN, Id("ა"), SEMI>>,
      <<Id("ა"), ASSIGN, Num("2"), SEMI>>,
      <<Id("ბ"), ASSIGN, Id("ა"), Op("+"), Num("1"), SEMI>>,
      <<KW_VAR, Id("჻"), ASSIGN, Num("1"), SEMI>>,
      <<KW_FUNC, Id("ფ"), LPAREN, Id("ა"), COMMA, Id("ბ"), RPAREN, LBRACE>>,
      <<KW_FUNC, Id("ა"), LPAREN, RPAREN, LBRACE, RBRACE>>,
      <<RBRACE>>,
      <<SEMI>>,
      <<KW_IF>>,
      <<KW_VAR, Id("ა"), ASSIGN>>,
      <<LPAREN, Num("1")>> }

RECURSIVE FragmentPrograms(_)
FragmentPrograms(n) ==
    IF n = 0 THEN {<<>>}
    ELSE LET shorter == FragmentPrograms(n - 1)
         IN  shorter \cup {s \o f : s \in shorter, f \in Fragments}

\* The expressions of the specification's examples.
ExampleTrees ==
    { BinaryOperationNode("+", ValueNode("2"),
          BinaryOperationNode("*", ValueNode("3"), ValueNode("4"))),
      BinaryOperationNode("*",
          BinaryOperationNode("+", ValueNode("2"), ValueNode("3")), ValueNode("4")),
      BinaryOperationNode("-",
          BinaryOperationNode("-", ValueNode("ა"), ValueNode("ბ")), ValueNode("გ")) }

Names == {"ა", "ბ", "჻"}

TableValues == {ValueNode("1"), ValueNode("2"), None}

----------------------------------------------------------------------------
(* The state machine.  A behaviour is either a client calling the symbol    *)
(* table directly (pc = "table"), or one compilation as main() runs it:     *)
(* Parser(tokens, SymbolTable()).parse(), then generate(ast) on an          *)
(* IntermediateCodeGenerator().                                             *)

NoCall == [op |-> "none", name |-> "", value |-> None, before |-> EmptyTable,
           exc |-> NoExc, ret |-> None]

InitCommon ==
    /\ position = 0
    /\ symbols = EmptyTable
    /\ root = <<>>
    /\ exc = NoExc
    /\ last = NoCall
    /\ iters = 0
    /\ entry = 0
    /\ stalled = FALSE
    /\ undeclared_use = FALSE
    /\ instructions = <<>>
    /\ temp_counter = 0
    /\ runs = 0
    /\ first_listing = <<>>
    /\ object_runs = 0
    /\ blocks = <<>>

InitTable == pc = "table" /\ tokens = <<>> /\ source = None /\ InitCommon

InitCompile ==
    /\ pc = "parse"
    /\ \/ tokens \in FragmentPrograms(MaxFrags) /\ source = None
       \/ \E e \in ExprTrees \cup ExampleTrees, full \in BOOLEAN :
              tokens = DeclarationOf("ბ", e, full) /\ source = e
    /\ InitCommon

Init == InitTable \/ InitCompile

parser_vars == <<tokens, source, position, root, exc, iters, entry, stalled, undeclared_use,
                 blocks>>
generator_vars == <<instructions, temp_counter, runs, first_listing,
          object_runs, source>>

(* SymbolTable called directly *)

Declare(name, value) ==
    /\ pc = "table"
    /\ \E r \in {declare(symbols, name, value)} :
           /\ symbols' = r.symbols
           /\ last' = [op |-> "declare", name |-> name, value |-> value,
                       before |-> symbols, exc |-> r.exc, ret |-> None]
    /\ UNCHANGED <<pc, parser_vars, generator_vars>>

Assign(name, value) ==
    /\ pc = "table"
    /\ \E r \in {assign(symbols, name, value)} :
           /\ symbols' = r.symbols
           /\ last' = [op |-> "assign", name |-> name, value |-> value,
                       before |-> symbols, exc |-> r.exc, ret |-> None]
    /\ UNCHANGED <<pc, parser_vars, generator_vars>>

Lookup(name) ==
    /\ pc = "table"
    /\ \E r \in {lookup(symbols, name)} :
           last' = [op |-> "lookup", name |-> name, value |-> None,
                    before |-> symbols, exc |-> r.exc, ret |-> r.value]
    /\ UNCHANGED <<pc, symbols, parser_vars, generator_vars>>

(* Parser.parse *)

ParserState ==
    [position |-> position, symbols |-> symbols, exc |-> NoExc, token |-> None,
     ret |-> None, iters |-> iters, stalled |-> stalled,
     undeclared_use |-> undeclared_use]

\* One pass of the while loop of parse: parse_statement, then append.
ParseStatement ==
    /\ pc = "parse"
    /\ position < Len(tokens)
    /\ \E p \in {loop_statement(ParserState)} :
           /\ position' = p.position
           /\ symbols' = p.symbols
           /\ exc' = p.exc
           /\ iters' = p.iters
           /\ stalled' = p.stalled
           /\ undeclared_use' = p.undeclared_use
           /\ pc' = IF Raised(p) THEN "error" ELSE "parse"
           /\ root' = IF ~Raised(p) /\ p.ret # None THEN Append(root, p.ret) ELSE root
    /\ entry' = position
    /\ UNCHANGED <<tokens, source, last, blocks, generator_vars>>

\* The loop of parse ends and parse returns the Program node.
ParseReturn ==
    /\ pc = "parse"
    /\ position >= Len(tokens)
    /\ pc' = "parsed"
    /\ UNCHANGED <<tokens, source, position, symbols, root, exc, last, iters, entry,
                   stalled, undeclared_use, blocks, generator_vars>>

(* IntermediateCodeGenerator *)

Program == Node("Program", root)

GeneratorState ==
    [instructions |-> instructions, temp_counter |-> temp_counter, exc |-> NoExc,
     ret |-> "None"]

\* icg.generate(ast) on the current generator object.
Generate ==
    /\ pc \in {"parsed", "generated"}
    /\ runs < MaxRuns
    /\ \E g \in {generate(GeneratorState, Program)} :
           /\ instructions' = g.instructions
           /\ temp_counter' = g.temp_counter
           /\ exc' = g.exc
           /\ pc' = IF Raised(g) THEN "unsupported" ELSE "generated"
           /\ first_listing' = IF runs = 0 THEN g.instructions ELSE first_listing
    /\ runs' = runs + 1
    /\ object_runs' = object_runs + 1
    /\ UNCHANGED <<tokens, source, position, symbols, root, last, iters, entry, stalled,
                   undeclared_use, blocks>>

\* A constructor that leaves temp_counter as the last object had it.
NewGenerator_keeps_counter ==
    /\ pc = "generated"
    /\ object_runs > 0
    /\ runs < MaxRuns
    /\ instructions' = <<>>
    /\ object_runs' = 0
    /\ UNCHANGED <<pc, tokens, source, position, symbols, root, exc, last, iters, entry,
                   stalled, undeclared_use, blocks, runs, first_listing, temp_counter>>

\* icg = IntermediateCodeGenerator(): a new object replaces the used one.
NewGenerator ==
    /\ pc = "generated"
    /\ object_runs > 0
    /\ runs < MaxRuns
    /\ instructions' = <<>>
    /\ temp_counter' = 0
    /\ object_runs' = 0
    /\ UNCHANGED <<pc, tokens, source, position, symbols, root, exc, last, iters, entry,
                   stalled, undeclared_use, blocks, runs, first_listing>>

Next ==
    \/ \E name \in Names, value \in TableValues : Declare(name, value)
    \/ \E name \in Names, value \in TableValues : Assign(name, value)
    \/ \E name \in Names : Lookup(name)
    \/ ParseStatement
    \/ ParseReturn
    \/ Generate
    \/ NewGenerator

Spec == Init /\ [][Next]_vars


----------------------------------------------------------------------------
(* SimpleParser.parse: the tolerant parser.  Its closures share position;  *)
(* a parser state s is [position, exc, ret].  The expression and simple    *)
(* statement procedures run to completion inside one step; the statement   *)
(* loops (the top-level loop and the two block loops of an if-statement)   *)
(* take one step per iteration, and blocks is the stack of if-statements   *)
(* whose parse_statement call is still running.                            *)

simple_current_token(s) ==
    IF s.position < Len(tokens) THEN tokens[s.position + 1] ELSE None

\* None[0], None[1]
NotSubscriptable(s) ==
    [s EXCEPT !.exc = [type |-> "TypeError", position |-> s.position,
                       msg |-> "'NoneType' object is not subscriptable"]]

\* expected_kind / expected_value "" stand for the falsy default None.
simple_consume(s, expected_kind, expected_value) ==
    IF Raised(s) THEN s
    ELSE Then(simple_current_token(s), LAMBDA token :
         IF \/ token = None
            \/ (expected_kind # "" /\ token.kind # expected_kind)
            \/ (expected_value # "" /\ token.value # expected_value)
         THEN [s EXCEPT !.ret = None]
         ELSE [s EXCEPT !.position = @ + 1, !.ret = token])

RECURSIVE simple_parse_factor(_), simple_term_loop(_, _), simple_parse_term(_),
          simple_expression_loop(_, _), simple_parse_expression(_)

simple_parse_factor(s) ==
    IF Raised(s) THEN s
    ELSE Then(simple_current_token(s), LAMBDA token :
         IF token = None THEN NotSubscriptable(s)
         ELSE IF token.kind = "NUMBER" \/ token.kind = "IDENTIFIER"
         THEN Then(simple_consume(s, "", ""), LAMBDA q :
              [q EXCEPT !.ret = Node(token.value, <<>>)])
         ELSE IF token.kind = "BRACKET" /\ token.value = "("
         THEN Then(simple_consume(s, "BRACKET", "("), LAMBDA q1 :
              Then(simple_parse_expression(q1), LAMBDA q2 :
              Then(simple_consume(q2, "BRACKET", ")"), LAMBDA q3 :
              IF Raised(q3) THEN q3 ELSE [q3 EXCEPT !.ret = q2.ret])))
         ELSE [s EXCEPT !.ret = None])

simple_term_loop(s, node) ==
    IF Raised(s) THEN s
    ELSE Then(simple_current_token(s), LAMBDA token :
         IF token # None /\ token.kind = "OPERATOR" /\ token.value \in {"*", "/"}
         THEN Then(simple_consume(s, "", ""), LAMBDA q1 :
              Then(simple_parse_factor(q1), LAMBDA q2 :
              IF Raised(q2) THEN q2
              ELSE simple_term_loop(q2, Node(token.value, <<node, q2.ret>>))))
         ELSE [s EXCEPT !.ret = node])

simple_parse_term(s) ==
    Then(simple_parse_factor(s), LAMBDA q :
    IF Raised(q) THEN q ELSE simple_term_loop(q, q.ret))

simple_expression_loop(s, node) ==
    IF Raised(s) THEN s
    ELSE Then(simple_current_token(s), LAMBDA token :
         IF token # None /\ token.kind = "OPERATOR" /\ token.value \in {"+", "-"}
         THEN Then(simple_consume(s, "", ""), LAMBDA q1 :
              Then(simple_parse_term(q1), LAMBDA q2 :
              IF Raised(q2) THEN q2
              ELSE simple_expression_loop(q2, Node(token.value, <<node, q2.ret>>))))
         ELSE [s EXCEPT !.ret = node])

simple_parse_expression(s) ==
    Then(simple_parse_term(s), LAMBDA q :
    IF Raised(q) THEN q ELSE simple_expression_loop(q, q.ret))

simple_parse_condition(s) ==
    Then(simple_parse_expression(s), LAMBDA q1 :
    IF Raised(q1) THEN q1
    ELSE Then(simple_current_token(q1), LAMBDA token :
         IF token # None /\ token.kind = "COMPARISON"
         THEN Then(simple_consume(q1, "", ""), LAMBDA q2 :
              Then(simple_parse_expression(q2), LAMBDA q3 :
              IF Raised(q3) THEN q3
              ELSE [q3 EXCEPT !.ret = Node(token.value, <<q1.ret, q3.ret>>)]))
         ELSE q1))

\* Node(value, [Node(identifier[1]), expr]) after the statement's last consume.
simple_statement_node(s, value, identifier, expr) ==
    IF Raised(s) THEN s
    ELSE IF identifier = None THEN NotSubscriptable(s)
    ELSE [s EXCEPT !.ret = Node(value, <<Node(identifier.value, <<>>), expr>>)]

\* The branch "Variable declaration" of parse_statement.
simple_declaration(s) ==
    Then(simple_consume(s, "KEYWORD", "აი"), LAMBDA q1 :
    Then(simple_consume(q1, "IDENTIFIER", ""), LAMBDA q2 :
    Then(simple_consume(q2, "ASSIGNMENT", "="), LAMBDA q3 :
    Then(simple_parse_expression(q3), LAMBDA q4 :
    Then(simple_consume(q4, "SEMICOLON", ";"), LAMBDA q5 :
    simple_statement_node(q5, "Declaration", q2.ret, q4.ret))))))

\* The branch "Assignment" of parse_statement.
simple_assignment(s) ==
    Then(simple_consume(s, "IDENTIFIER", ""), LAMBDA q1 :
    Then(simple_consume(q1, "ASSIGNMENT", "="), LAMBDA q2 :
    Then(simple_parse_expression(q2), LAMBDA q3 :
    Then(simple_consume(q3, "SEMICOLON", ";"), LAMBDA q4 :
    simple_statement_node(q4, "Assignment", q1.ret, q3.ret)))))

\* The branch "Print statement" of parse_statement.
simple_print(s) ==
    Then(simple_consume(s, "KEYWORD", "დაბეჭდე"), LAMBDA q1 :
    Then(simple_consume(q1, "BRACKET", "("), LAMBDA q2 :
    Then(simple_parse_expression(q2), LAMBDA q3 :
    Then(simple_consume(q3, "BRACKET", ")"), LAMBDA q4 :
    Then(simple_consume(q4, "SEMICOLON", ";"), LAMBDA q5 :
    IF Raised(q5) THEN q5 ELSE [q5 EXCEPT !.ret = Node("Print", <<q3.ret>>)])))))

\* The branch "If statement" of parse_statement up to its first block loop:
\* ret is the condition.
simple_if_open(s) ==
    Then(simple_consume(s, "KEYWORD", "თუ"), LAMBDA q1 :
    Then(simple_consume(q1, "BRACKET", "("), LAMBDA q2 :
    Then(simple_parse_condition(q2), LAMBDA q3 :
    Then(simple_consume(q3, "BRACKET", ")"), LAMBDA q4 :
    Then(simple_consume(q4, "BRACKET", "{"), LAMBDA q5 :
    IF Raised(q5) THEN q5 ELSE [q5 EXCEPT !.ret = q3.ret])))))

IsIf(token) == token # None /\ token.kind = "KEYWORD" /\ token.value = "თუ"

\* parse_statement for every statement but the if-statement.
simple_parse_statement(s) ==
    Then(simple_current_token(s), LAMBDA token :
    IF token = None THEN [s EXCEPT !.ret = None]
    ELSE IF token.kind = "KEYWORD" /\ token.value = "აი" THEN simple_declaration(s)
    ELSE IF token.kind = "IDENTIFIER" THEN simple_assignment(s)
    ELSE IF token.kind = "KEYWORD" /\ token.value = "დაბეჭდე" THEN simple_print(s)
    ELSE [s EXCEPT !.ret = None])

\* The condition of both block loops of an if-statement.
in_block(s) ==
    Then(simple_current_token(s), LAMBDA token :
    token # None /\ ~(token.kind = "BRACKET" /\ token.value = "}"))

\* After the true block's loop: consume('BRACKET', '}'), then the else header
\* when the cursor is at the keyword; ret tells whether the else loop follows.
simple_true_block_close(s) ==
    Then(simple_consume(s, "BRACKET", "}"), LAMBDA q1 :
    Then(simple_current_token(q1), LAMBDA token :
    IF token # None /\ token.kind = "KEYWORD" /\ token.value = "თუარა"
    THEN Then(simple_consume(q1, "KEYWORD", "თუარა"), LAMBDA q2 :
         Then(simple_consume(q2, "BRACKET", "{"), LAMBDA q3 :
         [q3 EXCEPT !.ret = TRUE]))
    ELSE [q1 EXCEPT !.ret = FALSE]))

IfNode(block) ==
    Node("If", <<block.condition, Node("TrueBranch", block.true_branch),
                 Node("FalseBranch", block.false_branch)>>)

\* The statement lists being built, outermost first: root.children, then the
\* running branch of every open if-statement.  stmt goes to the list of the
\* loop that called parse_statement.
Deliver(open, children, stmt) ==
    IF open = <<>> THEN [blocks |-> open, root |-> Append(children, stmt)]
    ELSE LET n == Len(open)
             b == open[n]
         IN  [blocks |-> [open EXCEPT ![n] =
                             IF b.loop = "true"
                             THEN [b EXCEPT !.true_branch = Append(@, stmt)]
                             ELSE [b EXCEPT !.false_branch = Append(@, stmt)]],
              root |-> children]

Pop(open) == SubSeq(open, 1, Len(open) - 1)

(* Inputs of SimpleParser.parse *)

MaxSimpleFrags == 3   \* fragments concatenated into a token list

KW_ELSE == Tok("KEYWORD", "თუარა")
KW_PRINT == Tok("KEYWORD", "დაბეჭდე")
Cmp(c) == Tok("COMPARISON", c)

SimpleFragments ==
    { <<KW_VAR, Id("ა"), ASSIGN, Num("1"), SEMI>>,
      <<Id("ა"), ASSIGN, Id("ა"), Op("+"), Num("2"), Op("*"), Num("3"), SEMI>>,
      <<KW_PRINT, LPAREN, Id("ა"), RPAREN, SEMI>>,
      <<KW_IF, LPAREN, Id("ა"), Cmp(">="), Num("1"), RPAREN, LBRACE>>,
      <<RBRACE>>,
      <<RBRACE, KW_ELSE, LBRACE>>,
      <<SEMI>>,
      <<Num("1")>>,
      <<KW_IF>>,
      <<KW_VAR>>,
      <<Id("ა"), ASSIGN, LPAREN, Num("1")>> }

RECURSIVE SimplePrograms(_)
SimplePrograms(n) ==
    IF n = 0 THEN {<<>>}
    ELSE LET shorter == SimplePrograms(n - 1)
         IN  shorter \cup {t \o f : t \in shorter, f \in SimpleFragments}

(* The state machine of one call parse(tokens) *)

SimpleInit ==
    /\ pc = "simple"
    /\ tokens \in SimplePrograms(MaxSimpleFrags)
    /\ source = None
    /\ InitCommon

SimpleState == [position |-> position, exc |-> NoExc, ret |-> None]

simple_unchanged == <<tokens, source, symbols, last, iters, entry, undeclared_use,
                      generator_vars>>

\* The condition of the loop whose iteration is next: the top-level loop, or
\* the block loop of the innermost open if-statement.
LoopRuns ==
    IF blocks = <<>> THEN position < Len(tokens) ELSE in_block(SimpleState)

\* One iteration of the running statement loop whose parse_statement call
\* takes the if branch: the call stays open while its block loop runs.
SimpleIfOpen ==
    /\ pc = "simple"
    /\ LoopRuns
    /\ IsIf(simple_current_token(SimpleState))
    /\ \E s \in {simple_if_open(SimpleState)} :
           /\ position' = s.position
           /\ exc' = s.exc
           /\ pc' = IF Raised(s) THEN "error" ELSE "simple"
           /\ blocks' = IF Raised(s) THEN blocks
                        ELSE Append(blocks, [condition |-> s.ret, loop |-> "true",
                                             true_branch |-> <<>>, false_branch |-> <<>>])
    /\ UNCHANGED <<root, stalled, simple_unchanged>>

\* One iteration of the running statement loop with any other statement:
\* stmt = parse_statement(); the top-level loop appends it or breaks, a block
\* loop appends it or goes round again.
SimpleStatement ==
    /\ pc = "simple"
    /\ LoopRuns
    /\ ~IsIf(simple_current_token(SimpleState))
    /\ \E s \in {simple_parse_statement(SimpleState)} :
           /\ position' = s.position
           /\ exc' = s.exc
           /\ pc' = IF Raised(s) THEN "error"
                    ELSE IF blocks = <<>> /\ s.ret = None THEN "returned"
                    ELSE "simple"
           /\ \E d \in {IF Raised(s) \/ s.ret = None
                        THEN [blocks |-> blocks, root |-> root]
                        ELSE Deliver(blocks, root, s.ret)} :
                  blocks' = d.blocks /\ root' = d.root
           /\ stalled' = (stalled \/ (~Raised(s) /\ blocks # <<>> /\ s.ret = None
                                       /\ s.position = position))
    /\ UNCHANGED simple_unchanged

\* The true block's loop ends: the else block's loop starts, or the
\* if-statement is complete and parse_statement returns its node to the loop
\* that called it.
SimpleTrueBlockEnd ==
    /\ pc = "simple"
    /\ blocks # <<>>
    /\ blocks[Len(blocks)].loop = "true"
    /\ ~LoopRuns
    /\ \E s \in {simple_true_block_close(SimpleState)} :
           /\ position' = s.position
           /\ \E d \in {IF s.ret
                        THEN [blocks |-> [blocks EXCEPT ![Len(blocks)].loop = "false"],
                              root |-> root]
                        ELSE Deliver(Pop(blocks), root, IfNode(blocks[Len(blocks)]))} :
                  blocks' = d.blocks /\ root' = d.root
    /\ UNCHANGED <<pc, exc, stalled, simple_unchanged>>

\* The else block's loop ends: consume('BRACKET', '}') and return the node.
SimpleFalseBlockEnd ==
    /\ pc = "simple"
    /\ blocks # <<>>
    /\ blocks[Len(blocks)].loop = "false"
    /\ ~LoopRuns
    /\ \E s \in {simple_consume(SimpleState, "BRACKET", "}")} :
           /\ position' = s.position
           /\ \E d \in {Deliver(Pop(blocks), root, IfNode(blocks[Len(blocks)]))} :
                  blocks' = d.blocks /\ root' = d.root
    /\ UNCHANGED <<pc, exc, stalled, simple_unchanged>>

\* The top-level loop ends and parse returns root.
SimpleReturn ==
    /\ pc = "simple"
    /\ blocks = <<>>
    /\ position >= Len(tokens)
    /\ pc' = "returned"
    /\ UNCHANGED <<position, root, exc, stalled, blocks, simple_unchanged>>

SimpleNext ==
    \/ SimpleIfOpen
    \/ SimpleStatement
    \/ SimpleTrueBlockEnd
    \/ SimpleFalseBlockEnd
    \/ SimpleReturn

SimpleSpec == SimpleInit /\ [][SimpleNext]_vars

----------------------------------------------------------------------------
(* Properties *)

Compiling == pc # "table"

ParseSucceeded == pc \in {"parsed", "generated", "unsupported"}

DuplicateDeclaration == Exc("ValueError", "has already been declared")
InvalidName == Exc("ValueError", "Invalid symbol name")
UndeclaredSymbol == Exc("KeyError", "has not been declared yet")

\* table is before with exactly the binding name -> value added or replaced.
Bound(table, before, name, value) ==
    /\ DOMAIN table = DOMAIN before \cup {name}
    /\ table[name] = value
    /\ \A n \in DOMAIN before \ {name} : table[n] = before[n]

\* The declarations აი x = ... written in the token list, by position.
DeclarationsOf(x) ==
    {i \in 1..(Len(tokens) - 1) : tokens[i] = KW_VAR /\ tokens[i + 1] = Id(x)}

DeclaredTwice == \E i \in 1..(Len(tokens) - 1) :
    /\ tokens[i] = KW_VAR
    /\ tokens[i + 1].kind = "IDENTIFIER"
    /\ Cardinality(DeclarationsOf(tokens[i + 1].value)) >= 2

\* A statement list walked in the order the parser finished its statements:
\* acc.declared are the names declared so far, acc.ok is FALSE once an
\* assignment to a name not yet declared has been met.  A function's name
\* is declared after the statements of its body.
RECURSIVE Walk(_, _, _)
Walk(stmts, i, acc) ==
    IF i > Len(stmts) THEN acc
    ELSE Then(stmts[i], LAMBDA s :
         Then(CASE s.cls = "DeclarationNode" ->
                     [acc EXCEPT !.declared = @ \cup {s.children[1].value}]
                [] s.cls = "AssignmentNode" ->
                     [acc EXCEPT !.ok = @ /\ s.children[1].value \in acc.declared]
                [] s.cls = "FunctionNode" ->
                     Then(Walk(s.body.children, 1, acc), LAMBDA b :
                          [b EXCEPT !.declared = @ \cup {s.name.value}])
                [] OTHER -> acc,
              LAMBDA next : Walk(stmts, i + 1, next)))

Walked == Walk(root, 1, [declared |-> {}, ok |-> TRUE])

\* C1 as stated: declare on a present name fails with the duplicate error
\* and changes nothing; declare on any absent name inserts exactly that
\* binding; a program with two declarations of one name never parses.
C1_DeclareAsStated ==
    /\ last.op = "declare" =>
          IF last.name \in DOMAIN last.before
          THEN last.exc = DuplicateDeclaration /\ symbols = last.before
          ELSE last.exc = NoExc /\ Bound(symbols, last.before, last.name, last.value)
    /\ Compiling /\ DeclaredTwice => ~ParseSucceeded

\* C1 as amended: declare on a present name fails with the duplicate error
\* whatever the old and new values are and leaves the table unchanged; on an
\* absent name that is a valid identifier it inserts exactly that binding and
\* changes no other; on an absent name that is no valid identifier it fails
\* with the invalid-name error and leaves the table unchanged.  A program
\* with two declarations of the same name never parses to the end.
C1_Declare ==
    /\ last.op = "declare" =>
          IF last.name \in DOMAIN last.before
          THEN last.exc = DuplicateDeclaration /\ symbols = last.before
          ELSE IF isidentifier(last.name)
          THEN last.exc = NoExc /\ Bound(symbols, last.before, last.name, last.value)
          ELSE last.exc = InvalidName /\ symbols = last.before
    /\ Compiling /\ DeclaredTwice => ~ParseSucceeded

\* A declare of a present name with a value other than the bound one was refused.
C1_Witness ==
    /\ last.op = "declare"
    /\ last.name \in DOMAIN last.before
    /\ last.before[last.name] # last.value
    /\ last.exc = DuplicateDeclaration

\* C2: assign on an absent name fails with the undeclared-symbol error and
\* leaves the table unchanged; on a present name it overwrites that name's
\* value only and keeps the key set.  Every assignment statement the parser
\* accepted is to a name a statement finished before it had declared.
C2_Assign ==
    /\ last.op = "assign" =>
          IF last.name \notin DOMAIN last.before
          THEN last.exc = UndeclaredSymbol /\ symbols = last.before
          ELSE /\ last.exc = NoExc
               /\ DOMAIN symbols = DOMAIN last.before
               /\ Bound(symbols, last.before, last.name, last.value)
    /\ Compiling =>
          /\ Walked.ok
          /\ Walked.declared \subseteq DOMAIN symbols
          /\ pc # "error" => Walked.declared = DOMAIN symbols

\* The parser refused an assignment to an undeclared name after it had
\* accepted another statement.
C2_Witness ==
    /\ pc = "error"
    /\ exc = UndeclaredSymbol
    /\ Len(root) >= 1
    /\ tokens[position].kind = "SEMICOLON"

\* C3: in every parse that completes without error, each identifier operand
\* was present in the symbol table when it was parsed.
C3_DeclareBeforeUse == ParseSucceeded => ~undeclared_use

\* C4: a parse that fails on a token mismatch (any failure the symbol table
\* did not raise) fails with a SyntaxError carrying the cursor position.
C4_MismatchIsSyntaxError ==
    pc = "error" /\ exc.type \notin {"ValueError", "KeyError"} =>
        exc.type = "SyntaxError" /\ exc.position = position

\* C5: every parse_statement call made while tokens remain raises or returns
\* with the cursor advanced; the cursor never moves back and never passes the
\* token count; the statement-loop iterations started, nested block loops
\* included, never outnumber the tokens consumed.
C5_Progress ==
    Compiling =>
        /\ ~stalled
        /\ entry <= position
        /\ position <= Len(tokens)
        /\ iters <= position
        /\ (iters > 0 /\ pc # "error" => entry < position)

\* A parse ended after the block loop of a function body had run over a
\* token that begins no statement.
C5_Witness ==
    /\ pc = "parsed"
    /\ \E i \in 1..Len(root) :
          /\ root[i].cls = "FunctionNode"
          /\ \E j \in 1..Len(root[i].body.children) :
                root[i].body.children[j].value = "Unknown"

----------------------------------------------------------------------------
(* Expressions and listings *)

RECURSIVE Leaves(_), NumOps(_)

\* The leaf values of an expression tree, from left to right.
Leaves(e) ==
    IF IsLeaf(e) THEN <<e.value>>
    ELSE Leaves(e.children[1]) \o Leaves(e.children[2])

\* The operators of an expression tree.
NumOps(e) ==
    IF IsLeaf(e) THEN 0
    ELSE NumOps(e.children[1]) + NumOps(e.children[2]) + 1

IsOperand(token) == token.kind \in {"NUMBER", "IDENTIFIER"}

\* The operand lexemes of the right-hand side of a one-declaration program.
Operands ==
    LET rhs == SelectSeq(SubSeq(tokens, 4, Len(tokens) - 1), IsOperand)
    IN  [i \in 1..Len(rhs) |-> rhs[i].value]

TokensOf(e) == DeclarationOf("ბ", e, FALSE)

SumOfProduct ==       \* 2 + 3 * 4
    BinaryOperationNode("+", ValueNode("2"),
        BinaryOperationNode("*", ValueNode("3"), ValueNode("4")))

ProductOfSum ==       \* (2 + 3) * 4
    BinaryOperationNode("*",
        BinaryOperationNode("+", ValueNode("2"), ValueNode("3")), ValueNode("4"))

Differences ==        \* a - b - c
    BinaryOperationNode("-",
        BinaryOperationNode("-", ValueNode("ა"), ValueNode("ბ")), ValueNode("გ"))

\* C6: a declaration written from an expression tree, with the parentheses
\* precedence and left associativity require or with every compound operand
\* parenthesised, parses back to that tree, and the leaves of the parsed
\* tree are the operands of the token list in their order.
C6_Precedence ==
    /\ source # None /\ pc # "parse" =>
          /\ pc # "error"
          /\ root = <<DeclarationNode(Id("ბ"), source)>>
          /\ Leaves(root[1].children[2]) = Operands
    /\ pc = "parsed" =>
          /\ tokens = <<KW_VAR, Id("ბ"), ASSIGN, Num("2"), Op("+"), Num("3"), Op("*"),
                        Num("4"), SEMI>>
                => root[1].children[2] = SumOfProduct
          /\ tokens = <<KW_VAR, Id("ბ"), ASSIGN, LPAREN, Num("2"), Op("+"), Num("3"),
                        RPAREN, Op("*"), Num("4"), SEMI>>
                => root[1].children[2] = ProductOfSum
          /\ tokens = <<KW_VAR, Id("ბ"), ASSIGN, Id("ა"), Op("-"), Id("ბ"), Op("-"),
                        Id("გ"), SEMI>>
                => root[1].children[2] = Differences

\* (2 + 3) * 4 and a - b - c have been parsed.
C6_Witness ==
    /\ pc = "parsed"
    /\ source \in {ProductOfSum, Differences}
    /\ root = <<DeclarationNode(Id("ბ"), source)>>

IsBinary(instruction) == Len(instruction) = 5 /\ instruction[2] = "="

IsCopy(instruction) == Len(instruction) = 3 /\ instruction[2] = "="

\* The instructions target = left op right of a listing, in order.
Binary(listing) == SelectSeq(listing, IsBinary)

TempName(k) == "t" \o ToString(k)

\* The expression an operand text stands for, given the binary instructions
\* B and that only the temporaries t0 .. t(k-1) are defined.
RECURSIVE Rebuild(_, _, _)
Rebuild(B, name, k) ==
    IF \E j \in 0..(k - 1) : TempName(j) = name
    THEN Then(CHOOSE j \in 0..(k - 1) : TempName(j) = name, LAMBDA j :
         BinaryOperationNode(B[j + 1][4], Rebuild(B, B[j + 1][3], j),
                             Rebuild(B, B[j + 1][5], j)))
    ELSE ValueNode(name)

\* The BinaryOperation nodes of an AST: left operand's, then right operand's,
\* then the node itself; statements and blocks in order.
RECURSIVE PostOrder(_), PostOrderAll(_, _)
PostOrder(n) ==
    CASE n.cls = "BinaryOperationNode" ->
             PostOrder(n.children[1]) \o PostOrder(n.children[2]) \o <<n>>
      [] n.cls \in {"DeclarationNode", "AssignmentNode"} -> PostOrder(n.children[2])
      [] n.cls = "FunctionNode" -> PostOrder(n.body)
      [] n.cls = "Node" -> PostOrderAll(n.children, 1)
      [] OTHER -> <<>>

PostOrderAll(children, i) ==
    IF i > Len(children) THEN <<>>
    ELSE PostOrder(children[i]) \o PostOrderAll(children, i + 1)

\* The first generate(ast) on a new generator has just returned.
FirstRun == pc = "generated" /\ runs = 1 /\ object_runs = 1

\* C7: one run on a fresh generator emits exactly one instruction
\* tK = left op right per BinaryOperation node, after all instructions of its
\* left operand and then all of its right operand; the temporaries are t0,
\* t1, ... in emission order without gaps, each the target of one instruction
\* only and defined before every instruction that uses it.
C7_Temporaries ==
    FirstRun =>
        \A B \in {Binary(instructions)} : \A N \in {PostOrder(Program)} :
            /\ Len(B) = Len(N)
            /\ temp_counter = Len(B)
            /\ \A k \in 1..Len(B) :
                  /\ B[k][1] = TempName(k - 1)
                  /\ Rebuild(B, TempName(k - 1), k) = N[k]
            /\ \A i \in 1..Len(instructions) :
                  IsCopy(instructions[i]) =>
                      /\ \A j \in 0..(Len(B) - 1) :
                            /\ instructions[i][1] # TempName(j)
                            /\ instructions[i][3] = TempName(j) =>
                                  j < Len(Binary(SubSeq(instructions, 1, i)))
            /\ source = ProductOfSum =>
                  instructions = << <<"t0", "=", "2", "+", "3">>,
                                    <<"t1", "=", "t0", "*", "4">>,
                                    <<"ბ", "=", "t1">> >>

\* A program whose expression has operations on both sides of an operation
\* has been compiled.
C7_Witness ==
    /\ FirstRun
    /\ source # None
    /\ ~IsLeaf(source)
    /\ ~IsLeaf(source.children[1])
    /\ ~IsLeaf(source.children[2])
    /\ Len(instructions) = 4

\* The listing walked statement by statement: acc.at is the index of the next
\* instruction, acc.temps the temporaries used so far, acc.ok whether every
\* statement so far emitted what C8 (amended) says.
RECURSIVE Emitted(_, _, _)
Emitted(stmts, i, acc) ==
    IF i > Len(stmts) THEN acc
    ELSE Then(stmts[i], LAMBDA s :
         Then(CASE s.cls \in {"DeclarationNode", "AssignmentNode"} ->
                     Then(NumOps(s.children[2]), LAMBDA n :
                     Then(acc.at + n, LAMBDA end :
                          [at |-> end + 1, temps |-> acc.temps + n,
                           ok |-> /\ acc.ok
                                  /\ end <= Len(instructions)
                                  /\ instructions[end] =
                                        <<s.children[1].value, "=",
                                          IF n = 0 THEN s.children[2].value
                                          ELSE TempName(acc.temps + n - 1)>>
                                  /\ \A m \in acc.at..(end - 1) : IsBinary(instructions[m])
                                  /\ n > 0 =>
                                        /\ instructions[end - 1][1] = TempName(acc.temps + n - 1)
                                        /\ instructions[end - 1][4] = s.children[2].value]))
                [] s.cls = "FunctionNode" ->
                     Then(Emitted(s.body.children, 1,
                                  [acc EXCEPT !.at = @ + 1,
                                              !.ok = /\ acc.ok
                                                     /\ acc.at <= Len(instructions)
                                                     /\ instructions[acc.at][1] = "func"]),
                          LAMBDA b :
                          [b EXCEPT !.at = @ + 1,
                                    !.ok = /\ b.ok
                                           /\ b.at <= Len(instructions)
                                           /\ instructions[b.at] = <<"}">>])
                [] OTHER -> acc,
              LAMBDA next : Emitted(stmts, i + 1, next)))

\* C8 as stated: a statement x = E with E a binary operation emits as many
\* instructions as E has operators, the last of them x = left op right.
C8_AsStated ==
    /\ FirstRun /\ source # None /\ ~IsLeaf(source) =>
          /\ Len(instructions) = NumOps(source)
          /\ IsBinary(instructions[Len(instructions)])
          /\ instructions[Len(instructions)][1] = "ბ"
    /\ FirstRun /\ source = SumOfProduct =>
          instructions = << <<"t0", "=", "3", "*", "4">>,
                            <<"ბ", "=", "2", "+", "t0">> >>

\* C8 as amended: a declaration or assignment x = E emits one instruction
\* tK = left op right per operator of E and then the copy x = tK of the
\* temporary of E's last operation (x = E when E is a single operand): one
\* instruction more than E has operators, the last with x as its target.
\* 2 + 3 * 4 gives t0 = 3 * 4, t1 = 2 + t0, x = t1.
C8_Statement ==
    /\ FirstRun =>
          \A done \in {Emitted(root, 1, [at |-> 1, temps |-> 0, ok |-> TRUE])} :
              done.ok /\ done.at = Len(instructions) + 1
    /\ FirstRun /\ source # None =>
          /\ Len(instructions) = NumOps(source) + 1
          /\ instructions[Len(instructions)][1] = "ბ"
    /\ FirstRun /\ source = SumOfProduct =>
          instructions = << <<"t0", "=", "3", "*", "4">>,
                            <<"t1", "=", "2", "+", "t0">>,
                            <<"ბ", "=", "t1">> >>

\* The declaration of 2 + 3 * 4 has been compiled.
C8_Witness == FirstRun /\ source = SumOfProduct /\ Len(instructions) = 3

\* C9 as stated: every later run of generate over the same AST, on the same
\* generator or on a new one, leaves the listing the first run left.
C9_AsStated ==
    pc = "generated" /\ runs >= 2 /\ object_runs >= 1 => instructions = first_listing

\* C9 as amended: a run of generate on a new generator yields the listing
\* the first run yielded, with the same temporaries; a run on a generator
\* that has run before appends its instructions to those already there and
\* numbers its temporaries on from the counter the earlier run left.
C9_Repeatable ==
    pc = "generated" /\ object_runs >= 1 =>
        \A n \in {Len(first_listing)} : \A t \in {Len(Binary(first_listing))} :
            /\ object_runs = 1 => instructions = first_listing
            /\ Len(instructions) = object_runs * n
            /\ SubSeq(instructions, 1, n) = first_listing
            /\ temp_counter = object_runs * t
            /\ \A k \in 1..Len(Binary(instructions)) :
                  Binary(instructions)[k][1] = TempName(k - 1)

\* A second run, on a new generator, has repeated a listing with temporaries.
C9_Witness ==
    /\ pc = "generated"
    /\ runs = 2
    /\ object_runs = 1
    /\ temp_counter > 0
    /\ instructions = first_listing

\* Whether an AST holds a node of a variant without a generation rule.
RECURSIVE Unsupported(_)
Unsupported(n) ==
    /\ "cls" \in DOMAIN n
    /\ \/ n.cls = "Node" /\ n.value \notin {"Program", "Block", "TrueBranch", "FalseBranch"}
       \/ n.cls = "FunctionNode" /\ Unsupported(n.body)
       \/ n.cls = "Node" /\ \E i \in 1..Len(n.children) : Unsupported(n.children[i])

\* C10: generate fails with the unsupported-construct error whenever the AST
\* holds a node of a variant without a generation rule, such as Unknown.
C10_UnsupportedRejected ==
    runs >= 1 /\ Unsupported(Program) =>
        pc = "unsupported" /\ exc.type = "NotImplementedError"

\* A call of SimpleParser.parse that is still running and has no step left
\* that changes anything: its loop goes round with the same cursor for ever.
SimpleStuck == pc = "simple" /\ ~ENABLED <<SimpleNext>>_vars

\* C11: SimpleParser.parse terminates on every finite token list: every
\* iteration of the top-level statement loop and of the block loops of an
\* if-statement advances the cursor or leaves the loop, so no call is left
\* going round a loop with the cursor stuck.
C11_Terminates == ~stalled /\ ~SimpleStuck

====
